---- MODULE Spec2Model ----
(***************************************************************************)
(* GavelAI backend: the evaluation run (main.py run_evaluations), the      *)
(* verdict parser (ollama_client.py parse_verdict) and the SQLite store    *)
(* they work on (database.py init_db).                                     *)
(*                                                                         *)
(* Text is modelled as a sequence of one-character strings, so that        *)
(* strip, upper, split, replace and float are computed character by        *)
(* character as Python computes them.                                      *)
(***************************************************************************)
EXTENDS Integers, Sequences, FiniteSets, TLC

(***************************************************************************)
(* Bounds of the model.                                                    *)
(***************************************************************************)
\* longest parser input, in lines
MaxLines == 2
\* saturation of the magnitude of int(float(raw)); Python integers are
\* unbounded, every value above 100 is clamped to 100 by the parser
IntCap == 1000000

(***************************************************************************)
(* Python str operations.                                                  *)
(***************************************************************************)
LowerCase == <<"a", "b", "c", "d", "e", "f", "g", "h", "i", "j", "k", "l", "m", "n", "o", "p", "q", "r", "s", "t", "u", "v", "w", "x", "y", "z">>
UpperCase == <<"A", "B", "C", "D", "E", "F", "G", "H", "I", "J", "K", "L", "M", "N", "O", "P", "Q", "R", "S", "T", "U", "V", "W", "X", "Y", "Z">>
Digits == <<"0", "1", "2", "3", "4", "5", "6", "7", "8", "9">>
Whitespace == {" ", "\t", "\n", "\r", "\f"}

\* position of character c in alphabet, 0 when absent
IndexIn(c, alphabet) ==
    IF \E i \in 1..Len(alphabet) : alphabet[i] = c
    THEN CHOOSE i \in 1..Len(alphabet) : alphabet[i] = c
    ELSE 0

\* str.upper()
upper(s) ==
    [i \in 1..Len(s) |->
        LET k == IndexIn(s[i], LowerCase) IN IF k > 0 THEN UpperCase[k] ELSE s[i]]

\* str.lower()
lower(s) ==
    [i \in 1..Len(s) |->
        LET k == IndexIn(s[i], UpperCase) IN IF k > 0 THEN LowerCase[k] ELSE s[i]]

\* str.strip()
strip(s) ==
    LET keep == {i \in 1..Len(s) : s[i] \notin Whitespace} IN
    IF keep = {} THEN <<>>
    ELSE LET lo == CHOOSE i \in keep : \A j \in keep : i <= j
             hi == CHOOSE i \in keep : \A j \in keep : i >= j
         IN SubSeq(s, lo, hi)

\* str.startswith(p)
startswith(s, p) == Len(s) >= Len(p) /\ SubSeq(s, 1, Len(p)) = p

\* str.find(c) + 1: position of the first c, 0 when absent
find(s, c) ==
    IF \E i \in 1..Len(s) : s[i] = c
    THEN CHOOSE i \in 1..Len(s) : s[i] = c /\ \A j \in 1..(i - 1) : s[j] # c
    ELSE 0

\* s.split(c, 1)[1]: the text after the first c (the callers have checked
\* that c occurs, so the IndexError of the source cannot happen)
after_first(s, c) == SubSeq(s, find(s, c) + 1, Len(s))

\* s.split(c)[0]: the text before the first c, all of s when c is absent
before_first(s, c) == IF find(s, c) = 0 THEN s ELSE SubSeq(s, 1, find(s, c) - 1)

\* s.replace(c, "")
remove_char(s, c) == SelectSeq(s, LAMBDA x : x # c)

\* s.split("\n")
RECURSIVE split_lines(_)
split_lines(s) ==
    IF find(s, "\n") = 0 THEN <<s>>
    ELSE <<before_first(s, "\n")>> \o split_lines(after_first(s, "\n"))

\* "\n".join(ls)
RECURSIVE join_lines(_)
join_lines(ls) ==
    IF Len(ls) = 0 THEN <<>>
    ELSE IF Len(ls) = 1 THEN ls[1]
    ELSE ls[1] \o <<"\n">> \o join_lines(Tail(ls))

(***************************************************************************)
(* Python float(str) followed by int(): the value is kept as sign and      *)
(* truncated magnitude, which is exact for inputs of up to 15 significant  *)
(* digits.                                                                 *)
(***************************************************************************)
s_inf == <<"i", "n", "f">>
s_infinity == <<"i", "n", "f", "i", "n", "i", "t", "y">>
s_nan == <<"n", "a", "n">>
\* the first 17 digits of the least decimal that float() rounds to infinity
\* (about 1.7976931348623158e308)
FloatMax17 == <<"1", "7", "9", "7", "6", "9", "3", "1", "3", "4", "8", "6", "2", "3", "1", "5", "8">>
\* number of integer digits of that decimal
FloatMaxDigits == 309

IsDigit(c) == IndexIn(c, Digits) > 0

\* a digit group of the float grammar: digits, single underscores between them
ValidDigits(s) ==
    /\ Len(s) > 0
    /\ IsDigit(s[1])
    /\ IsDigit(s[Len(s)])
    /\ \A i \in 1..Len(s) : IsDigit(s[i]) \/ s[i] = "_"
    /\ \A i \in 1..(Len(s) - 1) : ~(s[i] = "_" /\ s[i + 1] = "_")

\* value of a digit string, saturated at IntCap
RECURSIVE digits_value(_, _)
digits_value(s, acc) ==
    IF Len(s) = 0 THEN acc
    ELSE LET v == acc * 10 + (IndexIn(s[1], Digits) - 1)
         IN digits_value(Tail(s), IF v > IntCap THEN IntCap ELSE v)

\* v * 10^n, saturated at IntCap
RECURSIVE shift_value(_, _)
shift_value(v, n) ==
    IF n <= 0 \/ v = 0 \/ v >= IntCap THEN (IF v >= IntCap THEN IntCap ELSE v)
    ELSE shift_value(IF v * 10 > IntCap THEN IntCap ELSE v * 10, n - 1)

\* s without its leading zeros
RECURSIVE strip_zeros(_)
strip_zeros(s) ==
    IF Len(s) > 0 /\ s[1] = "0" THEN strip_zeros(Tail(s)) ELSE s

\* a >= b for digit strings of equal length
RECURSIVE digits_ge(_, _)
digits_ge(a, b) ==
    IF Len(a) = 0 THEN TRUE
    ELSE IF a[1] # b[1] THEN IndexIn(a[1], Digits) > IndexIn(b[1], Digits)
    ELSE digits_ge(Tail(a), Tail(b))

\* the first n digits of s, padded with zeros on the right
pad_digits(s, n) == [i \in 1..n |-> IF i <= Len(s) THEN s[i] ELSE "0"]

\* The value of float(): kind is "finite" (with sign and the magnitude
\* truncated to an integer), "inf", "nan" or "ValueError".
FloatOf(kind, neg, whole) == [kind |-> kind, neg |-> neg, whole |-> whole]

\* the digits all with the decimal point after the first point of them,
\* sig being all without its leading zeros: infinity when the magnitude
\* needs more integer digits than a double holds
float_scaled(neg, all, point, sig) ==
    IF /\ sig # <<>>
       /\ \/ point - (Len(all) - Len(sig)) > FloatMaxDigits
          \/ /\ point - (Len(all) - Len(sig)) = FloatMaxDigits
             /\ digits_ge(pad_digits(sig, 17), FloatMax17)
    THEN FloatOf("inf", neg, 0)
    ELSE IF point <= 0 THEN FloatOf("finite", neg, 0)
    ELSE IF point <= Len(all) THEN FloatOf("finite", neg, digits_value(SubSeq(all, 1, point), 0))
    ELSE FloatOf("finite", neg, shift_value(digits_value(all, 0), point - Len(all)))

\* integer digits idig, fraction digits fdig, exponent e
float_value(neg, idig, fdig, e) ==
    float_scaled(neg, idig \o fdig, Len(idig) + e, strip_zeros(idig \o fdig))

\* the grammar of a decimal: digits, optional fraction, optional exponent
float_parts(neg, ipart, fpart, has_e, eneg, edigits) ==
    IF /\ ipart = <<>> \/ ValidDigits(ipart)
       /\ fpart = <<>> \/ ValidDigits(fpart)
       /\ ~(ipart = <<>> /\ fpart = <<>>)
       /\ ~has_e \/ ValidDigits(edigits)
    THEN float_value(neg, remove_char(ipart, "_"), remove_char(fpart, "_"),
                     IF ~has_e THEN 0
                     ELSE (IF eneg THEN -1 ELSE 1)
                              * digits_value(remove_char(edigits, "_"), 0))
    ELSE FloatOf("ValueError", neg, 0)

\* mantissa and exponent text
float_split(neg, mant, has_e, expo) ==
    float_parts(neg,
                before_first(mant, "."),
                IF find(mant, ".") = 0 THEN <<>> ELSE after_first(mant, "."),
                has_e,
                Len(expo) > 0 /\ expo[1] = "-",
                IF Len(expo) > 0 /\ expo[1] \in {"+", "-"} THEN Tail(expo) ELSE expo)

\* the text without its sign, in lower case
float_body(neg, body) ==
    IF body = s_inf \/ body = s_infinity THEN FloatOf("inf", neg, 0)
    ELSE IF body = s_nan THEN FloatOf("nan", neg, 0)
    ELSE float_split(neg,
                     before_first(body, "e"),
                     find(body, "e") # 0,
                     IF find(body, "e") = 0 THEN <<>> ELSE after_first(body, "e"))

\* float(s) for a stripped s
to_float(s) ==
    float_body(Len(s) > 0 /\ s[1] = "-",
               lower(IF Len(s) > 0 /\ s[1] \in {"+", "-"} THEN Tail(s) ELSE s))

(***************************************************************************)
(* parse_verdict (ollama_client.py).                                       *)
(***************************************************************************)
VERDICT_PREFIX == <<"V", "E", "R", "D", "I", "C", "T", ":">>
REASONING_PREFIX == <<"R", "E", "A", "S", "O", "N", "I", "N", "G", ":">>
CONFIDENCE_PREFIX == <<"C", "O", "N", "F", "I", "D", "E", "N", "C", "E", ":">>
s_pass == <<"p", "a", "s", "s">>
s_fail == <<"f", "a", "i", "l">>
s_inconclusive == <<"i", "n", "c", "o", "n", "c", "l", "u", "s", "i", "v", "e">>
\* the three values parse_verdict accepts after VERDICT:
Verdicts == {s_pass, s_fail, s_inconclusive}
\* confidence = 50  # Default mid-range confidence
DefaultConfidence == 50

\* a variant of clamp_confidence that stores the number as parsed
clamp_confidence_unclamped(n) == n

\* max(0, min(100, n))
clamp_confidence(n) ==
    IF n < 0 THEN 0 ELSE IF n > 100 THEN 100 ELSE n

\* int(f) and the clamp, or the except clause: ValueError (a text that
\* float() rejects, or int() of a NaN) is caught and gives 50; int() of an
\* infinity raises OverflowError, which the except clause does not name
confidence_of_float(f) ==
    IF f.kind = "inf" THEN [raised |-> TRUE, value |-> DefaultConfidence]
    ELSE IF f.kind = "finite"
         THEN [raised |-> FALSE,
               value |-> clamp_confidence(IF f.neg THEN 0 - f.whole ELSE f.whole)]
    ELSE [raised |-> FALSE, value |-> DefaultConfidence]

\* the body of the try block of a CONFIDENCE: line
confidence_of(line) ==
    confidence_of_float(
        to_float(strip(before_first(remove_char(strip(after_first(line, ":")), "%"), "/"))))

\* the locals of parse_verdict before its loop
parse_start ==
    [raised |-> FALSE, verdict |-> s_inconclusive, reasoning |-> <<>>,
     confidence |-> DefaultConfidence]

\* if verdict_text in ["pass", "fail", "inconclusive"]: verdict = verdict_text
set_verdict(st, verdict_text) ==
    IF verdict_text \in Verdicts THEN [st EXCEPT !.verdict = verdict_text] ELSE st

\* confidence = ..., or the exception that leaves parse_verdict
set_confidence(st, c) == [st EXCEPT !.raised = c.raised, !.confidence = c.value]

\* the if / elif chain on a stripped line
parse_stripped(st, line) ==
    IF startswith(upper(line), VERDICT_PREFIX)
    THEN set_verdict(st, lower(strip(after_first(line, ":"))))
    ELSE IF startswith(upper(line), REASONING_PREFIX)
    THEN [st EXCEPT !.reasoning = strip(after_first(line, ":"))]
    ELSE IF startswith(upper(line), CONFIDENCE_PREFIX)
    THEN set_confidence(st, confidence_of(line))
    ELSE st

\* one iteration of `for line in lines`: line = line.strip(), then the chain
parse_line(st, rawline) == parse_stripped(st, strip(rawline))

\* a variant of scan_lines that stops at the first line of each kind: the
\* lines are taken last to first, so that the first line is applied last
RECURSIVE scan_lines_first_wins(_, _)
scan_lines_first_wins(st, ls) ==
    IF Len(ls) = 0 \/ st.raised THEN st
    ELSE scan_lines_first_wins(parse_line(st, ls[Len(ls)]), SubSeq(ls, 1, Len(ls) - 1))

\* the loop `for line in lines`; an exception ends it
RECURSIVE scan_lines(_, _)
scan_lines(st, ls) ==
    IF Len(ls) = 0 \/ st.raised THEN st
    ELSE scan_lines(parse_line(st, ls[1]), Tail(ls))

\* a variant of fallback_reasoning that never falls back
fallback_reasoning_never(reasoning, response) == reasoning

\* if not reasoning: reasoning = response.strip()
fallback_reasoning(reasoning, response) ==
    IF reasoning = <<>> THEN strip(response) ELSE reasoning

\* the end of parse_verdict, after its loop
parse_finish(st, response) ==
    IF st.raised THEN st
    ELSE [st EXCEPT !.reasoning = fallback_reasoning(st.reasoning, response)]

\* parse_verdict(response): raised is TRUE when the call raises instead of
\* returning (verdict, reasoning, confidence)
parse_verdict(response) ==
    parse_finish(scan_lines(parse_start, split_lines(strip(response))), response)

(***************************************************************************)
(* Parser inputs: up to MaxLines lines drawn from ParseLines.              *)
(***************************************************************************)
Line(prefix, text) == prefix \o <<" ">> \o text
t_90 == <<"9", "0">>
t_ok == <<"o", "k">>

ParseLines ==
    { Line(VERDICT_PREFIX, s_pass),
      Line(lower(VERDICT_PREFIX), upper(s_fail)),
      Line(VERDICT_PREFIX, <<"m", "a", "y", "b", "e">>),
      <<" ", " ">> \o VERDICT_PREFIX \o s_inconclusive \o <<" ">>,
      Line(REASONING_PREFIX, t_ok),
      REASONING_PREFIX,
      Line(lower(REASONING_PREFIX), <<"a", ":", "b">>),
      Line(CONFIDENCE_PREFIX, t_90),
      Line(CONFIDENCE_PREFIX, <<"8", "5", "%">>),
      Line(CONFIDENCE_PREFIX, <<"8", "5", "/", "1", "0", "0">>),
      Line(CONFIDENCE_PREFIX, <<"1", "5", "0">>),
      Line(CONFIDENCE_PREFIX, <<"-", "1", "0">>),
      Line(CONFIDENCE_PREFIX, <<"b", "a", "n", "a", "n", "a">>),
      Line(CONFIDENCE_PREFIX, s_inf),
      Line(CONFIDENCE_PREFIX, s_nan),
      Line(CONFIDENCE_PREFIX, <<"1", "e", "9", "9", "9">>),
      Line(CONFIDENCE_PREFIX, <<"8", "%", "5">>),
      Line(lower(CONFIDENCE_PREFIX), <<"7", ".", "9">>),
      CONFIDENCE_PREFIX,
      <<>>,
      <<"h", "e", "l", "l", "o">> }

ParseInputs ==
    { join_lines(ls) : ls \in UNION { [1..n -> ParseLines] : n \in 0..MaxLines } }

(***************************************************************************)
(* The store (database.py) and the evaluation run (main.py).               *)
(***************************************************************************)
\* submissions of the queue in the initial store
MaxSubs == 2
\* questions of each submission in the initial store
MaxQuestions == 2
\* judges in the initial store
MaxJudges == 3
\* planned triples of the initial store when the LLM backend is reachable
MaxTriples == 3
\* runs started
MaxRuns == 1
\* runs started one after the other on the same queue
MaxReruns == 2
\* calls of the other endpoints
MaxCalls == 2
\* ids that table judges gives out
MaxJudgeId == 3
\* errors=errors[:10]
MaxErrors == 10

VARIABLES
    dbSchema,           \* columns of the tables in the file at DATABASE_PATH
    backend,            \* whether the Ollama server at OLLAMA_BASE_URL answers
    submissions,        \* table submissions, in rowid order
    questions,          \* table questions
    answers,            \* table answers
    judges,             \* table judges
    judge_assignments,  \* table judge_assignments
    evaluations,        \* table evaluations: the committed rows
    pending,            \* rows inserted on the run's connection, not committed
    run,                \* locals and position of the run_evaluations call
    result,             \* what the last run_evaluations call gave its caller
    runs,               \* number of run_evaluations calls started
    parser,             \* a parse_verdict call on its own
    judge_seq,          \* sqlite_sequence of table judges: the last id given
    api                 \* the last call of another endpoint, and its outcome

vars == <<dbSchema, backend, submissions, questions, answers, judges,
          judge_assignments, evaluations, pending, run, result, runs, parser,
          judge_seq, api>>

\* SQL NULL / Python None, and a text value
None == [null |-> TRUE, text |-> <<>>]
Some(t) == [null |-> FALSE, text |-> t]
\* Python truthiness of an optional text: `if q_content:`, `if answer_row[1]:`
truthy(v) == ~v.null /\ v.text # <<>>
\* fetchone() without a row
NoRow == [found |-> FALSE, choice |-> <<>>, reasoning |-> None]

QueueId(i) == <<"q", i>>
SubmissionId(i) == <<"s", i>>
TemplateId(i) == <<"t", i>>
JudgeName(i) == <<"judge", i>>

\* texts of questions and answers
t_question == <<"Q", "?">>
t_context == <<"c", "t", "x">>
t_yes == <<"y", "e", "s">>
t_because == <<"b", "c">>

(***************************************************************************)
(* The queries of run_evaluations.                                         *)
(***************************************************************************)
\* SELECT id FROM submissions WHERE queue_id = ?
select_submission_ids(queue_id) ==
    LET rows == SelectSeq(submissions, LAMBDA s : s.queue_id = queue_id)
    IN [i \in 1..Len(rows) |-> rows[i].id]

\* SELECT question_template_id, question_text, content FROM questions
\* WHERE submission_id = ?
select_questions(sub_id) ==
    SelectSeq(questions, LAMBDA q : q.submission_id = sub_id)

\* a variant of select_judges without `AND j.active = 1`
select_judges_any_state(queue_id, q_template_id) ==
    SelectSeq(judges, LAMBDA j :
        \E k \in 1..Len(judge_assignments) :
            /\ judge_assignments[k].judge_id = j.id
            /\ judge_assignments[k].queue_id = queue_id
            /\ judge_assignments[k].question_template_id = q_template_id)

\* SELECT j.id, j.name, ... FROM judges j JOIN judge_assignments ja
\* ON j.id = ja.judge_id WHERE ja.queue_id = ? AND
\* ja.question_template_id = ? AND j.active = 1
\* (one row per matching assignment row; rows in the order of table judges)
select_judges(queue_id, q_template_id) ==
    SelectSeq(judges, LAMBDA j :
        /\ j.active
        /\ \E k \in 1..Len(judge_assignments) :
              /\ judge_assignments[k].judge_id = j.id
              /\ judge_assignments[k].queue_id = queue_id
              /\ judge_assignments[k].question_template_id = q_template_id)

\* a variant of select_answer whose WHERE clause leaves out the template id
select_answer_any_template(sub_id, q_template_id) ==
    LET rows == SelectSeq(answers, LAMBDA a : a.submission_id = sub_id)
    IN IF Len(rows) = 0 THEN NoRow
       ELSE [found |-> TRUE, choice |-> rows[1].choice, reasoning |-> rows[1].reasoning]

\* SELECT choice, reasoning FROM answers WHERE submission_id = ? AND
\* question_template_id = ?, then fetchone()
select_answer(sub_id, q_template_id) ==
    LET rows == SelectSeq(answers, LAMBDA a :
                    a.submission_id = sub_id /\ a.question_template_id = q_template_id)
    IN IF Len(rows) = 0 THEN NoRow
       ELSE [found |-> TRUE, choice |-> rows[1].choice, reasoning |-> rows[1].reasoning]

(***************************************************************************)
(* The prompt: a sequence of segments, each a fixed block of the f-string  *)
(* (lit) or an interpolated value (val).                                   *)
(***************************************************************************)
Lit(name) == [lit |-> name, val |-> <<>>]
Val(text) == [lit |-> "", val |-> text]

\* answer_text = f"Choice: {answer_row[0]}", plus the reasoning line
build_answer_text(answer_row) ==
    <<Lit("Choice: "), Val(answer_row.choice)>>
    \o (IF truthy(answer_row.reasoning)
        THEN <<Lit("\nReasoning: "), Val(answer_row.reasoning.text)>>
        ELSE <<>>)

\* a variant of build_prompt that puts the context after the question
build_prompt_question_first(q_text, q_content, answer_text) ==
    <<Lit("=== QUESTION BEING EVALUATED ==="), Val(q_text)>>
    \o (IF truthy(q_content)
        THEN <<Lit("=== CONTEXT ==="), Val(q_content.text)>>
        ELSE <<>>)
    \o <<Lit("=== HUMAN ANALYST'S ANSWER ===")>>
    \o answer_text
    \o <<Lit("=== YOUR EVALUATION TASK ===")>>

\* context_section and prompt
build_prompt(q_text, q_content, answer_text) ==
    (IF truthy(q_content)
     THEN <<Lit("=== CONTEXT ==="), Val(q_content.text)>>
     ELSE <<>>)
    \o <<Lit("=== QUESTION BEING EVALUATED ==="), Val(q_text),
         Lit("=== HUMAN ANALYST'S ANSWER ===")>>
    \o answer_text
    \o <<Lit("=== YOUR EVALUATION TASK ===")>>

(***************************************************************************)
(* run_evaluations: its locals, and the loop structure                     *)
(*   for sub_id / for q_row / for judge_row.                               *)
(* run.pc names the await the call is suspended at.                        *)
(***************************************************************************)
NoEvaluation ==
    [submission_id |-> <<>>, question_template_id |-> <<>>, judge_id |-> 0,
     verdict |-> <<>>, reasoning |-> <<>>, confidence_score |-> 0]

\* planned = 0, completed = 0, failed = 0, errors = []; trace and skipped
\* record what the loops did (one entry per finished triple, one per
\* question skipped for want of an answer), base the number of committed
\* evaluations at the start of the call, requests the number of posts to
\* /api/generate, fetches the judges table as it stood at each SELECT of
\* the judges of a question, written the rows the call has committed
IdleRun ==
    [pc |-> "idle", queue_id |-> <<>>,
     submission_ids |-> <<>>, si |-> 0,
     question_rows |-> <<>>, qi |-> 0,
     judge_rows |-> <<>>, ji |-> 0,
     answer_row |-> NoRow, answer_text |-> <<>>,
     planned |-> 0, completed |-> 0, failed |-> 0, errors |-> <<>>,
     prompt |-> <<>>, row |-> NoEvaluation,
     trace |-> <<>>, skipped |-> <<>>, base |-> 0,
     requests |-> 0, fetches |-> <<>>, written |-> <<>>]

\* status "returned" carries the summary; status "raised" is a call that
\* ended with an exception, at names the await that raised it
NoResult ==
    [status |-> "none", at |-> "", planned |-> 0, completed |-> 0, failed |-> 0,
     errors |-> <<>>]

\* the queue a run may be asked for: the queue of the store, and one that
\* holds no submission
RunQueues == {QueueId(1), QueueId(2)}

sub_id(r) == r.submission_ids[r.si]
q_row(r) == r.question_rows[r.qi]
judge_row(r) == r.judge_rows[r.ji]

\* top of `for sub_id in submission_ids`
enter_submission(r) ==
    IF r.si <= Len(r.submission_ids)
    THEN [r EXCEPT !.pc = "questions"]
    ELSE [r EXCEPT !.pc = "return"]

\* top of `for q_row in question_rows`
enter_question(r) ==
    IF r.qi <= Len(r.question_rows)
    THEN [r EXCEPT !.pc = "judges"]
    ELSE enter_submission([r EXCEPT !.si = @ + 1])

\* top of `for judge_row in judge_rows`
enter_judge(r) ==
    IF r.ji <= Len(r.judge_rows)
    THEN [r EXCEPT !.pc = "invoke"]
    ELSE enter_question([r EXCEPT !.qi = @ + 1])

\* the triple the run is working on, with its outcome
triple_of(r, outcome) ==
    [submission_id |-> sub_id(r),
     question_template_id |-> q_row(r).question_template_id,
     judge_id |-> judge_row(r).id,
     outcome |-> outcome]

\* a variant of except_http_error that leaves the judge loop after a failure
except_http_error_breaks(r, e) ==
    enter_question(
        [r EXCEPT !.failed = @ + 1,
                  !.errors = Append(@, [text |-> "HTTP error for judge",
                                        judge_name |-> judge_row(r).name,
                                        cause |-> e]),
                  !.trace = Append(@, triple_of(r, "failed")),
                  !.qi = @ + 1])

\* except httpx.HTTPError as e
except_http_error(r, e) ==
    enter_judge(
        [r EXCEPT !.failed = @ + 1,
                  !.errors = Append(@, [text |-> "HTTP error for judge",
                                        judge_name |-> judge_row(r).name,
                                        cause |-> e]),
                  !.trace = Append(@, triple_of(r, "failed")),
                  !.ji = @ + 1])

\* a variant of except_exception that records the message without
\* counting the failure
except_exception_uncounted(r, e) ==
    enter_judge(
        [r EXCEPT !.errors = Append(@, [text |-> "Error running judge",
                                        judge_name |-> judge_row(r).name,
                                        cause |-> e]),
                  !.trace = Append(@, triple_of(r, "failed")),
                  !.ji = @ + 1])

\* except Exception as e
except_exception(r, e) ==
    enter_judge(
        [r EXCEPT !.failed = @ + 1,
                  !.errors = Append(@, [text |-> "Error running judge",
                                        judge_name |-> judge_row(r).name,
                                        cause |-> e]),
                  !.trace = Append(@, triple_of(r, "failed")),
                  !.ji = @ + 1])

\* a variant of truncate_errors that keeps the last messages
truncate_errors_last(errors) ==
    IF Len(errors) <= MaxErrors THEN errors
    ELSE SubSeq(errors, Len(errors) - MaxErrors + 1, Len(errors))

\* errors[:10]
truncate_errors(errors) ==
    IF Len(errors) <= MaxErrors THEN errors ELSE SubSeq(errors, 1, MaxErrors)

(***************************************************************************)
(* Outcomes of the awaited calls.                                          *)
(***************************************************************************)
\* a SELECT succeeds or raises sqlite3.OperationalError (database locked,
\* I/O error); the SELECT on questions names the column content, which
\* the table that init_db creates does not have
ReadOutcomes(table) ==
    IF table = "questions" /\ dbSchema = "created"
    THEN {"OperationalError"}
    ELSE {"ok", "OperationalError"}

\* OllamaClient.generate: the post fails to connect (httpx.ConnectError),
\* raise_for_status raises httpx.HTTPStatusError, response.json() raises
\* json.JSONDecodeError, or the response text is returned
GenerateOutcomes ==
    IF backend = "down" THEN {"ConnectError"}
    ELSE {"ok", "HTTPStatusError", "JSONDecodeError"}

\* the INSERT names the column confidence_score, which the table that
\* init_db creates does not have
InsertOutcomes ==
    IF dbSchema = "created" THEN {"OperationalError"} ELSE {"ok", "OperationalError"}

\* commit: done; refused with the transaction left open (SQLITE_BUSY); or
\* failed with the transaction rolled back (SQLITE_FULL, SQLITE_IOERR)
CommitOutcomes == {"ok", "busy", "rolled_back"}

\* what the LLM may answer
LlmReplies ==
    { join_lines(<<Line(VERDICT_PREFIX, s_pass), Line(REASONING_PREFIX, t_ok),
                   Line(CONFIDENCE_PREFIX, t_90)>>),
      join_lines(<<Line(lower(VERDICT_PREFIX), upper(s_fail)),
                   Line(CONFIDENCE_PREFIX, <<"1", "5", "0">>)>>),
      Line(CONFIDENCE_PREFIX, s_inf) }

(***************************************************************************)
(* The steps of run_evaluations, one per await.                            *)
(***************************************************************************)
tables == <<dbSchema, backend, submissions, questions, answers, judges,
            judge_assignments>>

\* an exception outside the inner try leaves run_evaluations: `finally`
\* closes the connection, which drops its open transaction, and the
\* caller gets no summary
Propagate ==
    /\ run' = [run EXCEPT !.pc = "idle"]
    /\ result' = [NoResult EXCEPT !.status = "raised", !.at = run.pc]
    /\ pending' = <<>>

\* POST /api/evaluations/run: db = await get_db(), the counters at zero;
\* limit bounds the calls
start_run(limit) ==
    /\ run.pc = "idle"
    /\ runs < limit
    /\ \E queue_id \in RunQueues :
          run' = [IdleRun EXCEPT !.pc = "submissions", !.queue_id = queue_id,
                                 !.base = Len(evaluations)]
    /\ runs' = runs + 1
    /\ result' = NoResult
    /\ UNCHANGED <<tables, evaluations, pending, parser, judge_seq, api>>

StartRun == start_run(MaxRuns)

\* the call made again and again on the same store
StartRunAgain == start_run(MaxReruns)

\* the submissions of the queue
FetchSubmissions ==
    /\ run.pc = "submissions"
    /\ \E out \in ReadOutcomes("submissions") :
          IF out = "ok"
          THEN /\ run' = enter_submission(
                            [run EXCEPT !.submission_ids = select_submission_ids(run.queue_id),
                                        !.si = 1])
               /\ UNCHANGED <<result, pending>>
          ELSE Propagate
    /\ UNCHANGED <<tables, evaluations, runs, parser, judge_seq, api>>

\* the questions of the submission
FetchQuestions ==
    /\ run.pc = "questions"
    /\ \E out \in ReadOutcomes("questions") :
          IF out = "ok"
          THEN /\ run' = enter_question(
                            [run EXCEPT !.question_rows = select_questions(sub_id(run)),
                                        !.qi = 1])
               /\ UNCHANGED <<result, pending>>
          ELSE Propagate
    /\ UNCHANGED <<tables, evaluations, runs, parser, judge_seq, api>>

\* the active judges assigned to the question
FetchJudges ==
    /\ run.pc = "judges"
    /\ \E out \in ReadOutcomes("judges") :
          IF out = "ok"
          THEN /\ run' = [run EXCEPT !.judge_rows =
                                        select_judges(run.queue_id,
                                                      q_row(run).question_template_id),
                                     !.fetches = Append(@,
                                        [submission_id |-> sub_id(run),
                                         question_template_id |->
                                            q_row(run).question_template_id,
                                         judges |-> judges,
                                         judge_assignments |-> judge_assignments]),
                                     !.pc = "answer"]
               /\ UNCHANGED <<result, pending>>
          ELSE Propagate
    /\ UNCHANGED <<tables, evaluations, runs, parser, judge_seq, api>>

\* the answer to the question; `if not answer_row: continue`
FetchAnswer ==
    /\ run.pc = "answer"
    /\ \E out \in ReadOutcomes("answers") :
          IF out = "ok"
          THEN /\ LET answer_row == select_answer(sub_id(run),
                                                  q_row(run).question_template_id)
                  IN IF ~answer_row.found
                     THEN run' = enter_question(
                                    [run EXCEPT !.answer_row = answer_row,
                                                !.skipped = Append(@,
                                                    <<sub_id(run),
                                                      q_row(run).question_template_id>>),
                                                !.qi = @ + 1])
                     ELSE run' = enter_judge(
                                    [run EXCEPT !.answer_row = answer_row,
                                                !.answer_text = build_answer_text(answer_row),
                                                !.ji = 1])
               /\ UNCHANGED <<result, pending>>
          ELSE Propagate
    /\ UNCHANGED <<tables, evaluations, runs, parser, judge_seq, api>>

\* a variant of generate that posts again when the first post has failed
generate_twice(r) == [r EXCEPT !.requests = @ + 2, !.pc = "generate"]

\* OllamaClient.generate: one client.post to /api/generate, awaited
generate(r) == [r EXCEPT !.requests = @ + 1, !.pc = "generate"]

\* planned += 1, the prompt is built and sent to ollama_client.generate
InvokeJudge ==
    /\ run.pc = "invoke"
    /\ run' = generate([run EXCEPT !.planned = @ + 1,
                                   !.prompt = build_prompt(q_row(run).question_text,
                                                           q_row(run).content,
                                                           run.answer_text)])
    /\ UNCHANGED <<tables, evaluations, pending, result, runs, parser, judge_seq, api>>

\* verdict, reasoning, confidence = parse_verdict(response): the row to
\* insert, or the exception of parse_verdict in the inner try
parsed_response(r, p) ==
    IF p.raised
    THEN except_exception(r, "OverflowError")
    ELSE [r EXCEPT !.row = [submission_id |-> sub_id(r),
                            question_template_id |-> q_row(r).question_template_id,
                            judge_id |-> judge_row(r).id,
                            verdict |-> p.verdict,
                            reasoning |-> p.reasoning,
                            confidence_score |-> p.confidence],
                   !.pc = "insert"]

\* generate returns or raises; a returned text goes through parse_verdict
GenerateReturns ==
    /\ run.pc = "generate"
    /\ \E out \in GenerateOutcomes, response \in LlmReplies :
          run' = IF out \in {"ConnectError", "HTTPStatusError"}
                 THEN except_http_error(run, out)
                 ELSE IF out = "JSONDecodeError"
                 THEN except_exception(run, out)
                 ELSE parsed_response(run, parse_verdict(response))
    /\ UNCHANGED <<tables, evaluations, pending, result, runs, parser, judge_seq, api>>

\* INSERT INTO evaluations
InsertEvaluation ==
    /\ run.pc = "insert"
    /\ \E out \in InsertOutcomes :
          IF out = "ok"
          THEN /\ pending' = Append(pending, run.row)
               /\ run' = [run EXCEPT !.pc = "commit"]
          ELSE /\ pending' = pending
               /\ run' = except_exception(run, out)
    /\ UNCHANGED <<tables, evaluations, result, runs, parser, judge_seq, api>>

\* a variant of commit_rows that keeps one row per (submission, question,
\* judge): a new row takes the place of the stored one
commit_rows_upsert(rows, new_rows) ==
    SelectSeq(rows, LAMBDA e :
        ~\E k \in 1..Len(new_rows) :
            /\ new_rows[k].submission_id = e.submission_id
            /\ new_rows[k].question_template_id = e.question_template_id
            /\ new_rows[k].judge_id = e.judge_id)
    \o new_rows

\* the rows of the transaction are added to the table: INSERT INTO
\* evaluations, nothing else
commit_rows(rows, new_rows) == rows \o new_rows

\* await db.commit(); completed += 1
CommitEvaluation ==
    /\ run.pc = "commit"
    /\ \E out \in CommitOutcomes :
          IF out = "ok"
          THEN /\ evaluations' = commit_rows(evaluations, pending)
               /\ pending' = <<>>
               /\ run' = enter_judge(
                            [run EXCEPT !.completed = @ + 1,
                                        !.written = @ \o pending,
                                        !.trace = Append(@, triple_of(run, "completed")),
                                        !.ji = @ + 1])
          ELSE /\ evaluations' = evaluations
               /\ pending' = IF out = "busy" THEN pending ELSE <<>>
               /\ run' = except_exception(run, "OperationalError")
    /\ UNCHANGED <<tables, result, runs, parser, judge_seq, api>>

\* return RunEvaluationResponse(...); finally: await db.close()
ReturnSummary ==
    /\ run.pc = "return"
    /\ result' = [status |-> "returned", at |-> "", planned |-> run.planned,
                  completed |-> run.completed, failed |-> run.failed,
                  errors |-> truncate_errors(run.errors)]
    /\ pending' = <<>>
    /\ run' = [run EXCEPT !.pc = "idle"]
    /\ UNCHANGED <<tables, evaluations, runs, parser, judge_seq, api>>

(***************************************************************************)
(* A parse_verdict call on its own.                                        *)
(***************************************************************************)
IdleParser == [state |-> "idle", response |-> <<>>, result |-> parse_start]

parser_done(ps, p) ==
    [ps EXCEPT !.state = IF p.raised THEN "raised" ELSE "returned", !.result = p]

ParseVerdict ==
    /\ parser.state = "called"
    /\ parser' = parser_done(parser, parse_verdict(parser.response))
    /\ UNCHANGED <<tables, evaluations, pending, run, result, runs, judge_seq, api>>

(***************************************************************************)
(* The other endpoints of main.py.  Each opens its own connection, so its  *)
(* writes reach the tables at its commit; api records the last call:       *)
(* op and args name it, n counts the calls, pc is "idle" once it has       *)
(* ended, status tells how ("ok", "not_found" for a 404, "raised").        *)
(***************************************************************************)
NoArgs ==
    [queue_id |-> <<>>, question_template_id |-> <<>>, judge_id |-> 0,
     judge_ids |-> <<>>, name |-> <<>>, active |-> "none", file |-> <<>>,
     filter |-> [judge_ids |-> <<>>, question_ids |-> <<>>, verdict |-> <<>>]]

NoStats ==
    [total |-> 0, pass_count |-> 0, fail_count |-> 0, inconclusive_count |-> 0,
     pass_rate |-> 0, avg_confidence |-> 0]

IdleApi ==
    [op |-> "none", pc |-> "idle", n |-> 0, status |-> "none", args |-> NoArgs,
     stats |-> NoStats, queue_stats |-> {}]

\* a call that has ended; the arguments are kept of a call that went through
api_done(op, args, status) ==
    [IdleApi EXCEPT !.op = op, !.status = status, !.n = api.n + 1,
                    !.args = IF status = "raised" THEN NoArgs ELSE args]

\* the commit of such a call: done, or refused (SQLITE_BUSY), after which
\* `finally: await db.close()` drops the transaction
WriteOutcomes == {"ok", "busy"}

\* ---- upload_submissions ----
\* one parsed entry of the uploaded JSON array
UploadedSubmission(id, queueId, qs, ans) ==
    [id |-> id, queueId |-> queueId, questions |-> qs, answers |-> ans]

\* the files a client uploads: one submission with a question and its
\* answer; one with an answer and no question; both
UploadFiles ==
    LET one == UploadedSubmission(SubmissionId(1), QueueId(1),
                   <<[id |-> TemplateId(1), questionText |-> t_question,
                      content |-> None]>>,
                   <<[q_id |-> TemplateId(1), choice |-> t_yes, reasoning |-> None]>>)
        two == UploadedSubmission(SubmissionId(2), QueueId(2), <<>>,
                   <<[q_id |-> TemplateId(1), choice |-> t_yes,
                      reasoning |-> Some(t_because)]>>)
    IN {<<one>>, <<two>>, <<two, one>>}

\* INSERT OR REPLACE INTO submissions: a row with the same id makes way
insert_or_replace_submission(rows, sub) ==
    Append(SelectSeq(rows, LAMBDA r : r.id # sub.id),
           [id |-> sub.id, queue_id |-> sub.queueId])

\* INSERT INTO questions, one row per question of the submission
insert_questions(rows, sub) ==
    rows \o [k \in 1..Len(sub.questions) |->
                [submission_id |-> sub.id,
                 question_template_id |-> sub.questions[k].id,
                 question_text |-> sub.questions[k].questionText,
                 content |-> sub.questions[k].content]]

\* INSERT INTO answers, one row per entry of submission.answers
insert_answers(rows, sub) ==
    rows \o [k \in 1..Len(sub.answers) |->
                [submission_id |-> sub.id,
                 question_template_id |-> sub.answers[k].q_id,
                 choice |-> sub.answers[k].choice,
                 reasoning |-> sub.answers[k].reasoning]]

\* `for sub_data in submissions_data` over the three tables
RECURSIVE upload_rows(_, _)
upload_rows(tabs, file) ==
    IF Len(file) = 0 THEN tabs
    ELSE upload_rows([submissions |-> insert_or_replace_submission(tabs.submissions, file[1]),
                      questions |-> insert_questions(tabs.questions, file[1]),
                      answers |-> insert_answers(tabs.answers, file[1])],
                     Tail(file))

\* the INSERT INTO questions names the column content
upload_fails(file) ==
    dbSchema = "created" /\ \E k \in 1..Len(file) : Len(file[k].questions) > 0

\* POST /api/submissions/upload
UploadSubmissions ==
    /\ api.pc = "idle"
    /\ api.n < MaxCalls
    /\ \E file \in UploadFiles, out \in WriteOutcomes :
          LET args == [NoArgs EXCEPT !.file = file]
              tabs == upload_rows([submissions |-> submissions, questions |-> questions,
                                   answers |-> answers], file)
          IN IF upload_fails(file) \/ out # "ok"
             THEN /\ api' = api_done("upload_submissions", args, "raised")
                  /\ UNCHANGED <<submissions, questions, answers>>
             ELSE /\ api' = api_done("upload_submissions", args, "ok")
                  /\ submissions' = tabs.submissions
                  /\ questions' = tabs.questions
                  /\ answers' = tabs.answers
    /\ UNCHANGED <<dbSchema, backend, judges, judge_assignments, evaluations, pending,
                   run, result, runs, parser, judge_seq>>

\* ---- delete_queue ----
\* DELETE FROM <table> WHERE submission_id IN (ids)
delete_of_submissions(rows, ids) ==
    SelectSeq(rows, LAMBDA r : \A k \in 1..Len(ids) : r.submission_id # ids[k])

\* DELETE /api/queues/{queue_id}
DeleteQueue ==
    /\ api.pc = "idle"
    /\ api.n < MaxCalls
    /\ \E queue_id \in RunQueues :
          LET args == [NoArgs EXCEPT !.queue_id = queue_id]
              submission_ids == select_submission_ids(queue_id)
          IN IF Len(submission_ids) = 0
             THEN /\ api' = api_done("delete_queue", args, "not_found")
                  /\ UNCHANGED <<evaluations, answers, questions, judge_assignments,
                                 submissions>>
             ELSE /\ api' = api_done("delete_queue", args, "ok")
                  /\ evaluations' = delete_of_submissions(evaluations, submission_ids)
                  /\ answers' = delete_of_submissions(answers, submission_ids)
                  /\ questions' = delete_of_submissions(questions, submission_ids)
                  /\ judge_assignments' =
                        SelectSeq(judge_assignments, LAMBDA a : a.queue_id # queue_id)
                  /\ submissions' = SelectSeq(submissions, LAMBDA r : r.queue_id # queue_id)
    /\ UNCHANGED <<dbSchema, backend, judges, pending, run, result, runs, parser,
                   judge_seq>>

\* ---- judges ----
\* the judge ids of requests: the ids given out so far, and the next one
JudgeIds == 1..(judge_seq + 1)
NewJudgeNames == {JudgeName(1), JudgeName(0)}

\* POST /api/judges: the name is UNIQUE, the id comes from AUTOINCREMENT
CreateJudge ==
    /\ api.pc = "idle"
    /\ api.n < MaxCalls
    /\ judge_seq < MaxJudgeId
    /\ \E name \in NewJudgeNames, active \in BOOLEAN :
          LET args == [NoArgs EXCEPT !.name = name,
                                     !.active = IF active THEN "true" ELSE "false"]
          IN IF \E k \in 1..Len(judges) : judges[k].name = name
             THEN /\ api' = api_done("create_judge", args, "raised")
                  /\ UNCHANGED <<judges, judge_seq>>
             ELSE /\ api' = api_done("create_judge",
                                     [args EXCEPT !.judge_id = judge_seq + 1], "ok")
                  /\ judges' = Append(judges, [id |-> judge_seq + 1, name |-> name,
                                               active |-> active])
                  /\ judge_seq' = judge_seq + 1
    /\ UNCHANGED <<dbSchema, backend, submissions, questions, answers, judge_assignments,
                   evaluations, pending, run, result, runs, parser>>

\* UPDATE judges SET active = ? WHERE id = ?
set_active(rows, judge_id, active) ==
    [k \in 1..Len(rows) |->
        IF rows[k].id = judge_id THEN [rows[k] EXCEPT !.active = active] ELSE rows[k]]

\* DELETE FROM judge_assignments WHERE judge_id = ?
delete_assignments_of(rows, judge_id) ==
    SelectSeq(rows, LAMBDA a : a.judge_id # judge_id)

\* PUT /api/judges/{judge_id}, up to the commit of the UPDATE; the update
\* sets the active flag (active "none": the field is not in the request)
UpdateJudge ==
    /\ api.pc = "idle"
    /\ api.n < MaxCalls
    /\ \E judge_id \in JudgeIds, active \in {"none", "true", "false"} :
          LET args == [NoArgs EXCEPT !.judge_id = judge_id, !.active = active]
          IN IF ~\E k \in 1..Len(judges) : judges[k].id = judge_id
             THEN /\ api' = api_done("update_judge", args, "not_found")
                  /\ judges' = judges
             ELSE /\ judges' = IF active = "none" THEN judges
                               ELSE set_active(judges, judge_id, active = "true")
                  /\ api' = IF active = "false"
                            THEN [api_done("update_judge", args, "none")
                                     EXCEPT !.pc = "cascade"]
                            ELSE api_done("update_judge", args, "ok")
    /\ UNCHANGED <<dbSchema, backend, submissions, questions, answers, judge_assignments,
                   evaluations, pending, run, result, runs, parser, judge_seq>>

\* `if judge_update.active is False`: the assignments of the judge go, in
\* a transaction of their own
UpdateJudgeCascade ==
    /\ api.pc = "cascade"
    /\ judge_assignments' = delete_assignments_of(judge_assignments, api.args.judge_id)
    /\ api' = [api EXCEPT !.pc = "idle", !.status = "ok"]
    /\ UNCHANGED <<dbSchema, backend, submissions, questions, answers, judges,
                   evaluations, pending, run, result, runs, parser, judge_seq>>

\* DELETE /api/judges/{judge_id}: DELETE FROM judges WHERE id = ?
DeleteJudge ==
    /\ api.pc = "idle"
    /\ api.n < MaxCalls
    /\ \E judge_id \in JudgeIds :
          /\ judges' = SelectSeq(judges, LAMBDA j : j.id # judge_id)
          /\ api' = api_done("delete_judge", [NoArgs EXCEPT !.judge_id = judge_id], "ok")
    /\ UNCHANGED <<dbSchema, backend, submissions, questions, answers, judge_assignments,
                   evaluations, pending, run, result, runs, parser, judge_seq>>

\* ---- assign_judges ----
\* the judge_ids of a request, over the ids given out so far
AssignedLists ==
    {l \in {<<>>, <<1>>, <<2>>, <<1, 2>>, <<1, 1>>} :
        \A k \in 1..Len(l) : l[k] <= judge_seq}

\* a variant of assign_rows without the DELETE
assign_rows_added(rows, queue_id, q_template_id, judge_ids) ==
    rows \o [k \in 1..Len(judge_ids) |->
                [queue_id |-> queue_id, question_template_id |-> q_template_id,
                 judge_id |-> judge_ids[k]]]

\* DELETE FROM judge_assignments WHERE queue_id = ? AND
\* question_template_id = ?, then one INSERT per judge id
assign_rows(rows, queue_id, q_template_id, judge_ids) ==
    SelectSeq(rows, LAMBDA a :
        ~(a.queue_id = queue_id /\ a.question_template_id = q_template_id))
    \o [k \in 1..Len(judge_ids) |->
           [queue_id |-> queue_id, question_template_id |-> q_template_id,
            judge_id |-> judge_ids[k]]]

\* UNIQUE(queue_id, question_template_id, judge_id)
unique_assignments(rows) ==
    \A i, k \in 1..Len(rows) : rows[i] = rows[k] => i = k

\* POST /api/assignments
AssignJudges ==
    /\ api.pc = "idle"
    /\ api.n < MaxCalls
    /\ \E queue_id \in RunQueues, t \in 1..2, judge_ids \in AssignedLists,
          out \in WriteOutcomes :
          LET args == [NoArgs EXCEPT !.queue_id = queue_id,
                                     !.question_template_id = TemplateId(t),
                                     !.judge_ids = judge_ids]
              rows == assign_rows(judge_assignments, queue_id, TemplateId(t), judge_ids)
          IN IF unique_assignments(rows) /\ out = "ok"
             THEN /\ judge_assignments' = rows
                  /\ api' = api_done("assign_judges", args, "ok")
             ELSE /\ judge_assignments' = judge_assignments
                  /\ api' = api_done("assign_judges", args, "raised")
    /\ UNCHANGED <<dbSchema, backend, submissions, questions, answers, judges,
                   evaluations, pending, run, result, runs, parser, judge_seq>>

\* ---- get_evaluation_stats, get_queue_stats ----
\* the query parameters: a field that is empty adds no condition
StatsFilter(judge_ids, question_ids, verdict) ==
    [judge_ids |-> judge_ids, question_ids |-> question_ids, verdict |-> verdict]

StatsFilters ==
    { StatsFilter(<<>>, <<>>, <<>>),
      StatsFilter(<<1>>, <<>>, <<>>),
      StatsFilter(<<>>, <<TemplateId(1)>>, s_pass),
      StatsFilter(<<2>>, <<>>, s_fail) }

\* WHERE 1=1 [AND judge_id IN (...)] [AND question_template_id IN (...)]
\* [AND verdict = ?]
matches(e, f) ==
    /\ f.judge_ids = <<>> \/ \E k \in 1..Len(f.judge_ids) : e.judge_id = f.judge_ids[k]
    /\ f.question_ids = <<>>
          \/ \E k \in 1..Len(f.question_ids) : e.question_template_id = f.question_ids[k]
    /\ f.verdict = <<>> \/ e.verdict = f.verdict

\* SELECT verdict, COUNT(*) ... GROUP BY verdict, read into stats[verdict]
count_verdict(rows, verdict) == Len(SelectSeq(rows, LAMBDA e : e.verdict = verdict))

RECURSIVE sum_confidence(_)
sum_confidence(rows) ==
    IF Len(rows) = 0 THEN 0 ELSE rows[1].confidence_score + sum_confidence(Tail(rows))

\* round(): the integer nearest to num / den, a tie going to the even one
round_ratio(num, den) ==
    IF 2 * (num % den) > den \/ (2 * (num % den) = den /\ (num \div den) % 2 = 1)
    THEN (num \div den) + 1
    ELSE num \div den

\* pass_rate in hundredths, avg_confidence in tenths
stats_of(rows) ==
    [total |-> count_verdict(rows, s_pass) + count_verdict(rows, s_fail)
                  + count_verdict(rows, s_inconclusive),
     pass_count |-> count_verdict(rows, s_pass),
     fail_count |-> count_verdict(rows, s_fail),
     inconclusive_count |-> count_verdict(rows, s_inconclusive),
     pass_rate |-> IF Len(rows) > 0
                   THEN round_ratio(count_verdict(rows, s_pass) * 10000, Len(rows))
                   ELSE 0,
     avg_confidence |-> IF Len(rows) > 0
                        THEN round_ratio(sum_confidence(rows) * 10, Len(rows))
                        ELSE 500]

\* GET /api/evaluations/stats; SELECT AVG(confidence_score) names a column
\* that the table of init_db does not have
GetEvaluationStats ==
    /\ api.pc = "idle"
    /\ api.n < MaxCalls
    /\ \E f \in StatsFilters :
          LET args == [NoArgs EXCEPT !.filter = f]
          IN api' = IF dbSchema = "created"
                    THEN api_done("get_evaluation_stats", args, "raised")
                    ELSE [api_done("get_evaluation_stats", args, "ok")
                             EXCEPT !.stats = stats_of(SelectSeq(evaluations,
                                                        LAMBDA e : matches(e, f)))]
    /\ UNCHANGED <<tables, evaluations, pending, run, result, runs, parser, judge_seq>>

\* FROM evaluations e JOIN judges j ON e.judge_id = j.id
\* JOIN submissions s ON e.submission_id = s.id
joined_rows(rows) ==
    LET kept == SelectSeq(rows, LAMBDA e :
                    /\ \E j \in 1..Len(judges) : judges[j].id = e.judge_id
                    /\ \E s \in 1..Len(submissions) : submissions[s].id = e.submission_id)
    IN [k \in 1..Len(kept) |->
           [queue_id |-> submissions[CHOOSE s \in 1..Len(submissions) :
                             submissions[s].id = kept[k].submission_id].queue_id,
            judge_id |-> kept[k].judge_id,
            judge_name |-> judges[CHOOSE j \in 1..Len(judges) :
                              judges[j].id = kept[k].judge_id].name,
            verdict |-> kept[k].verdict]]

\* GROUP BY s.queue_id, e.judge_id, j.name, e.verdict, and the two loops
\* that fold the groups into one entry per queue and judge
queue_stats_of(jrows) ==
    { LET mine == SelectSeq(jrows, LAMBDA r :
                     r.queue_id = jrows[k].queue_id /\ r.judge_id = jrows[k].judge_id)
      IN [queue_id |-> jrows[k].queue_id,
          judge_id |-> jrows[k].judge_id,
          judge_name |-> jrows[k].judge_name,
          pass |-> count_verdict(mine, s_pass),
          fail |-> count_verdict(mine, s_fail),
          inconclusive |-> count_verdict(mine, s_inconclusive),
          total |-> Len(mine),
          pass_rate |-> round_ratio(count_verdict(mine, s_pass) * 10000, Len(mine))]
      : k \in 1..Len(jrows) }

\* GET /api/evaluations/stats/by-queue
GetQueueStats ==
    /\ api.pc = "idle"
    /\ api.n < MaxCalls
    /\ api' = [api_done("get_queue_stats", NoArgs, "ok")
                  EXCEPT !.queue_stats = queue_stats_of(joined_rows(evaluations))]
    /\ UNCHANGED <<tables, evaluations, pending, run, result, runs, parser, judge_seq>>

(***************************************************************************)
(* Initial stores.  The queue holds n_subs submissions with the same       *)
(* n_questions question templates each, every question answered, n_judges  *)
(* active judges each assigned to every template; one of these may be      *)
(* missing (an answer, the active flag of a judge, an assignment), or the  *)
(* content of the first question or the reasoning of its answer may be     *)
(* the empty text.                                                         *)
(***************************************************************************)
Defects(n_subs, n_questions, n_judges) ==
    {[kind |-> "none", s |-> 0, t |-> 0, j |-> 0]}
    \cup {[kind |-> "no_answer", s |-> s, t |-> t, j |-> 0] :
             s \in 1..n_subs, t \in 1..n_questions}
    \cup {[kind |-> "inactive", s |-> 0, t |-> 0, j |-> j] : j \in 1..n_judges}
    \cup {[kind |-> "unassigned", s |-> 0, t |-> t, j |-> j] :
             t \in 1..n_questions, j \in 1..n_judges}
    \cup {[kind |-> k, s |-> 1, t |-> 1, j |-> 0] :
             k \in IF n_questions > 0 THEN {"empty_content", "empty_reasoning"} ELSE {}}

\* the pairs <<a, b>> of 1..m x 1..n in row order
Pairs(m, n) == [k \in 1..(m * n) |-> <<((k - 1) \div n) + 1, ((k - 1) % n) + 1>>]

InitStore(n_subs, n_questions, n_judges, d) ==
    /\ submissions = [i \in 1..n_subs |-> [id |-> SubmissionId(i), queue_id |-> QueueId(1)]]
    /\ questions =
          LET ps == Pairs(n_subs, n_questions)
          IN [k \in 1..Len(ps) |->
                 [submission_id |-> SubmissionId(ps[k][1]),
                  question_template_id |-> TemplateId(ps[k][2]),
                  question_text |-> t_question,
                  content |-> IF d.kind = "empty_content" /\ d.s = ps[k][1] /\ d.t = ps[k][2]
                              THEN Some(<<>>)
                              ELSE IF ps[k][2] = 1 THEN Some(t_context) ELSE None]]
    /\ answers =
          LET ps == SelectSeq(Pairs(n_subs, n_questions),
                              LAMBDA p : ~(d.kind = "no_answer" /\ d.s = p[1] /\ d.t = p[2]))
          IN [k \in 1..Len(ps) |->
                 [submission_id |-> SubmissionId(ps[k][1]),
                  question_template_id |-> TemplateId(ps[k][2]),
                  choice |-> t_yes,
                  reasoning |-> IF d.kind = "empty_reasoning" /\ d.s = ps[k][1]
                                   /\ d.t = ps[k][2]
                                THEN Some(<<>>)
                                ELSE IF ps[k][1] = 1 THEN Some(t_because) ELSE None]]
    /\ judges = [j \in 1..n_judges |->
                    [id |-> j, name |-> JudgeName(j),
                     active |-> ~(d.kind = "inactive" /\ d.j = j)]]
    /\ judge_assignments =
          LET ps == SelectSeq(Pairs(n_questions, n_judges),
                              LAMBDA p : ~(d.kind = "unassigned" /\ d.t = p[1] /\ d.j = p[2]))
          IN [k \in 1..Len(ps) |->
                 [queue_id |-> QueueId(1),
                  question_template_id |-> TemplateId(ps[k][1]),
                  judge_id |-> ps[k][2]]]

\* the triples a run on queue_id is to plan, in loop order: read off the
\* tables, not off the run
RECURSIVE concat(_)
concat(seqs) == IF Len(seqs) = 0 THEN <<>> ELSE seqs[1] \o concat(Tail(seqs))

EligibleTriples(queue_id) ==
    LET subs == select_submission_ids(queue_id)
        ofQuestion(s, q) ==
            IF \E k \in 1..Len(answers) :
                  /\ answers[k].submission_id = s
                  /\ answers[k].question_template_id = q.question_template_id
            THEN LET js == select_judges(queue_id, q.question_template_id)
                 IN [i \in 1..Len(js) |-> <<s, q.question_template_id, js[i].id>>]
            ELSE <<>>
        ofSubmission(s) ==
            LET qs == select_questions(s)
            IN concat([i \in 1..Len(qs) |-> ofQuestion(s, qs[i])])
    IN concat([i \in 1..Len(subs) |-> ofSubmission(subs[i])])

\* the file at DATABASE_PATH is new ("created": init_db creates the tables,
\* without questions.content and evaluations.confidence_score, so that no
\* question can have been uploaded) or holds tables with those columns
\* ("existing": CREATE TABLE IF NOT EXISTS leaves them as they are)
InitTables ==
    /\ dbSchema \in {"created", "existing"}
    /\ backend \in {"up", "down"}
    /\ \E n_subs \in 1..MaxSubs,
          n_questions \in (IF dbSchema = "created" THEN {0} ELSE 0..MaxQuestions),
          n_judges \in 0..MaxJudges :
          \E d \in Defects(n_subs, n_questions, n_judges) :
             InitStore(n_subs, n_questions, n_judges, d)
    /\ backend = "up" => Len(EligibleTriples(QueueId(1))) <= MaxTriples

Init ==
    /\ InitTables
    /\ evaluations = <<>>
    /\ pending = <<>>
    /\ run = IdleRun
    /\ result = NoResult
    /\ runs = 0
    /\ parser = IdleParser
    /\ judge_seq = Len(judges)
    /\ api = IdleApi

Next ==
    \/ StartRun
    \/ FetchSubmissions
    \/ FetchQuestions
    \/ FetchJudges
    \/ FetchAnswer
    \/ InvokeJudge
    \/ GenerateReturns
    \/ InsertEvaluation
    \/ CommitEvaluation
    \/ ReturnSummary

Spec == Init /\ [][Next]_vars

\* parse_verdict on every input of ParseInputs, over an empty store
InitParse ==
    /\ dbSchema = "existing"
    /\ backend = "up"
    /\ InitStore(0, 0, 0, [kind |-> "none", s |-> 0, t |-> 0, j |-> 0])
    /\ evaluations = <<>>
    /\ pending = <<>>
    /\ run = IdleRun
    /\ result = NoResult
    /\ runs = 0
    /\ \E response \in ParseInputs :
          parser = [IdleParser EXCEPT !.state = "called", !.response = response]
    /\ judge_seq = 0
    /\ api = IdleApi

NextParse == ParseVerdict

SpecParse == InitParse /\ [][NextParse]_vars

NoDefect == [kind |-> "none", s |-> 0, t |-> 0, j |-> 0]

\* everything but the tables at its initial value
InitRest ==
    /\ evaluations = <<>>
    /\ pending = <<>>
    /\ run = IdleRun
    /\ result = NoResult
    /\ runs = 0
    /\ parser = IdleParser
    /\ judge_seq = Len(judges)
    /\ api = IdleApi

\* the endpoints that write submissions, judges and assignments, called
\* one after the other; the store holds one submission with two answered
\* questions and two judges assigned to both, or, in a file that init_db
\* has created, a submission without questions
InitStoreCalls ==
    /\ dbSchema \in {"created", "existing"}
    /\ backend = "up"
    /\ InitStore(1, IF dbSchema = "created" THEN 0 ELSE 2, 2, NoDefect)
    /\ InitRest

NextStoreCalls ==
    \/ UploadSubmissions
    \/ DeleteQueue
    \/ CreateJudge
    \/ UpdateJudge
    \/ UpdateJudgeCascade
    \/ DeleteJudge
    \/ AssignJudges

SpecStoreCalls == InitStoreCalls /\ [][NextStoreCalls]_vars

\* run_evaluations called again and again on a store that nothing else
\* writes: one answered question with two judges
InitRerun ==
    /\ dbSchema = "existing"
    /\ backend = "up"
    /\ InitStore(1, 1, 2, NoDefect)
    /\ InitRest

NextRerun ==
    \/ StartRunAgain
    \/ FetchSubmissions
    \/ FetchQuestions
    \/ FetchJudges
    \/ FetchAnswer
    \/ InvokeJudge
    \/ GenerateReturns
    \/ InsertEvaluation
    \/ CommitEvaluation
    \/ ReturnSummary

SpecRerun == InitRerun /\ [][NextRerun]_vars

\* a run with calls of the judge endpoints between its awaits: one
\* answered question with one judge assigned
InitJudgeCalls ==
    /\ dbSchema = "existing"
    /\ backend = "up"
    /\ InitStore(1, 1, 1, NoDefect)
    /\ InitRest

NextJudgeCalls ==
    \/ StartRun
    \/ FetchSubmissions
    \/ FetchQuestions
    \/ FetchJudges
    \/ FetchAnswer
    \/ InvokeJudge
    \/ GenerateReturns
    \/ InsertEvaluation
    \/ CommitEvaluation
    \/ ReturnSummary
    \/ UpdateJudge
    \/ UpdateJudgeCascade
    \/ DeleteJudge
    \/ AssignJudges

SpecJudgeCalls == InitJudgeCalls /\ [][NextJudgeCalls]_vars

\* a run, deletions of judges and queues, and the two statistics
\* endpoints: one answered question with two judges, or, in a file that
\* init_db has created, a submission without questions
InitStats ==
    /\ dbSchema \in {"created", "existing"}
    /\ backend = "up"
    /\ InitStore(1, IF dbSchema = "created" THEN 0 ELSE 1, 2, NoDefect)
    /\ InitRest

NextStats ==
    \/ StartRun
    \/ FetchSubmissions
    \/ FetchQuestions
    \/ FetchJudges
    \/ FetchAnswer
    \/ InvokeJudge
    \/ GenerateReturns
    \/ InsertEvaluation
    \/ CommitEvaluation
    \/ ReturnSummary
    \/ DeleteJudge
    \/ DeleteQueue
    \/ GetEvaluationStats
    \/ GetQueueStats

SpecStats == InitStats /\ [][NextStats]_vars

(***************************************************************************)
(* Properties.                                                             *)
(***************************************************************************)
Returned == result.status = "returned"

TraceTriples(trace) ==
    [i \in 1..Len(trace) |->
        <<trace[i].submission_id, trace[i].question_template_id, trace[i].judge_id>>]
FailedEntries(trace) == SelectSeq(trace, LAMBDA e : e.outcome = "failed")
CompletedEntries(trace) == SelectSeq(trace, LAMBDA e : e.outcome = "completed")

HasAnswer(s, t) ==
    \E k \in 1..Len(answers) :
        answers[k].submission_id = s /\ answers[k].question_template_id = t

NameOfJudge(id) ==
    LET rows == SelectSeq(judges, LAMBDA j : j.id = id) IN rows[1].name

Min(a, b) == IF a < b THEN a ELSE b

\* the triple the run has counted in planned and not yet finished
InFlight == IF run.pc \in {"generate", "insert", "commit"} THEN 1 ELSE 0

\* C1: per-item isolation. Every failure of a triple is counted once in
\* failed and leaves one message naming the judge of that triple, and a run
\* that returns has worked on every eligible triple of the queue, in loop
\* order, whatever failed on the way; with three triples of one question
\* of which exactly one failed the summary is planned 3, completed 2,
\* failed 1 and one message.
C1_PerItemIsolation ==
    LET failures == FailedEntries(run.trace) IN
    /\ run.failed = Len(failures)
    /\ Len(run.errors) = Len(failures)
    /\ \A k \in 1..Len(run.errors) :
          run.errors[k].judge_name = NameOfJudge(failures[k].judge_id)
    /\ Returned =>
          /\ TraceTriples(run.trace) = EligibleTriples(run.queue_id)
          /\ result.planned = Len(EligibleTriples(run.queue_id))
          /\ (Len(run.trace) = 3 /\ Len(failures) = 1) =>
                /\ result.planned = 3
                /\ result.completed = 2
                /\ result.failed = 1
                /\ Len(result.errors) = 1

\* one question with three assigned active judges, the invocation of the
\* first of them threw, the other two were still run and stored
C1_Witness ==
    /\ Returned
    /\ Len(run.trace) = 3
    /\ \A k \in 1..3 :
          /\ run.trace[k].submission_id = run.trace[1].submission_id
          /\ run.trace[k].question_template_id = run.trace[1].question_template_id
    /\ run.trace[1].outcome = "failed"
    /\ run.errors[1].cause = "HTTPStatusError"
    /\ result.planned = 3 /\ result.completed = 2 /\ result.failed = 1
    /\ Len(result.errors) = 1
    /\ Len(evaluations) = 2

\* C2: run_evaluations on an existing queue always hands its caller a
\* summary: no failure while reading questions, judges or answers or while
\* writing an Evaluation leaves the call as an exception; and when every
\* judge call failed the summary has completed = 0 and failed = planned.
C2_AlwaysReturnsSummary ==
    /\ ~(/\ result.status = "raised"
         /\ result.at \in {"questions", "judges", "answer", "insert", "commit"}
         /\ \E k \in 1..Len(submissions) : submissions[k].queue_id = run.queue_id)
    /\ (Returned /\ CompletedEntries(run.trace) = <<>>) =>
          result.completed = 0 /\ result.failed = result.planned

\* C3: skip rule. A (submission, question) without an Answer row adds
\* nothing to planned, gets no judge invoked and no Evaluation written, and
\* leaves nothing in failed or errors: planned counts exactly the triples
\* worked on, and each of them, each stored or inserted row and each
\* message belongs to an answered question.
C3_SkipRule ==
    /\ run.planned = Len(run.trace) + InFlight
    /\ \A k \in 1..Len(run.trace) :
          HasAnswer(run.trace[k].submission_id, run.trace[k].question_template_id)
    /\ InFlight = 1 => HasAnswer(sub_id(run), q_row(run).question_template_id)
    /\ \A k \in 1..Len(evaluations) :
          HasAnswer(evaluations[k].submission_id, evaluations[k].question_template_id)
    /\ \A k \in 1..Len(pending) :
          HasAnswer(pending[k].submission_id, pending[k].question_template_id)
    /\ Len(run.errors) = Len(FailedEntries(run.trace))
    /\ \A k \in 1..Len(run.skipped) :
          /\ ~HasAnswer(run.skipped[k][1], run.skipped[k][2])
          /\ \A i \in 1..Len(run.trace) :
                <<run.trace[i].submission_id, run.trace[i].question_template_id>>
                    # run.skipped[k]

\* a run returned after skipping an unanswered question that has active
\* judges assigned, and after working on another question
C3_Witness ==
    /\ Returned
    /\ result.planned > 0
    /\ \E k \in 1..Len(run.skipped) :
          Len(select_judges(run.queue_id, run.skipped[k][2])) >= 2

\* C5: every Evaluation row of the store has a verdict among pass, fail,
\* inconclusive and an integer confidence from 0 to 100.
C5_EvaluationDomain ==
    \A k \in 1..Len(evaluations) :
        /\ evaluations[k].verdict \in Verdicts
        /\ evaluations[k].confidence_score \in 0..100

\* the reply `verdict: FAIL / CONFIDENCE: 150` was stored as fail, 100
C5_Witness ==
    \E k \in 1..Len(evaluations) :
        /\ evaluations[k].verdict = s_fail
        /\ evaluations[k].confidence_score = 100

\* C9: the summary's errors are the first min(failed, 10) messages in the
\* order of the failures, at most 10, and its failed and completed are the
\* numbers of failed and of completed triples.
C9_BoundedErrors ==
    Returned =>
        LET failures == FailedEntries(run.trace) IN
        /\ Len(result.errors) <= MaxErrors
        /\ Len(result.errors) = Min(Len(failures), MaxErrors)
        /\ \A k \in 1..Len(result.errors) :
              /\ result.errors[k] = run.errors[k]
              /\ result.errors[k].judge_name = NameOfJudge(failures[k].judge_id)
        /\ result.failed = Len(failures)
        /\ result.completed = Len(CompletedEntries(run.trace))

\* more than 10 triples failed, of more than one judge
C9_Witness ==
    /\ Returned
    /\ result.failed > MaxErrors
    /\ Len(result.errors) = MaxErrors
    /\ run.errors[Len(run.errors)] # run.errors[1]

\* C10: at return the number of Evaluation rows the run added to the store
\* equals completed: one committed row per completed triple, none for a
\* failed one.
C10_RowsEqualCompleted ==
    Returned =>
        /\ Len(evaluations) - run.base = result.completed
        /\ \A k \in 1..result.completed :
              LET e == evaluations[run.base + k]
                  c == CompletedEntries(run.trace)[k]
              IN <<e.submission_id, e.question_template_id, e.judge_id>>
                    = <<c.submission_id, c.question_template_id, c.judge_id>>

(***************************************************************************)
(* Properties of parse_verdict.                                            *)
(***************************************************************************)
\* the lines the loop of parse_verdict sees, each stripped
InputLines(response) ==
    LET ls == split_lines(strip(response)) IN [i \in 1..Len(ls) |-> strip(ls[i])]

\* the positions of the lines that start with prefix, case-insensitively
LinesWith(response, prefix) ==
    {i \in 1..Len(InputLines(response)) :
        startswith(upper(InputLines(response)[i]), prefix)}

First(S) == CHOOSE i \in S : \A j \in S : i <= j
Last(S) == CHOOSE i \in S : \A j \in S : i >= j

\* the trimmed text after the prefix of line i
TextAfter(response, i) == strip(after_first(InputLines(response)[i], ":"))

\* C4: parse_verdict returns a triple for every input, it never raises.
C4_ParseVerdictTotal == parser.state # "raised"

\* C6 as stated: each field is given by the first line with its prefix.
C6_FirstLineWins ==
    parser.state = "returned" =>
        LET r == parser.response
            V == LinesWith(r, VERDICT_PREFIX)
            R == LinesWith(r, REASONING_PREFIX)
            C == LinesWith(r, CONFIDENCE_PREFIX)
        IN /\ V # {} =>
                parser.result.verdict = parse_verdict(InputLines(r)[First(V)]).verdict
           /\ (R # {} /\ TextAfter(r, First(R)) # <<>>) =>
                parser.result.reasoning = TextAfter(r, First(R))
           /\ C # {} =>
                parser.result.confidence = parse_verdict(InputLines(r)[First(C)]).confidence

\* C6, amended: each field is given by the last line with its prefix: the
\* confidence by the last CONFIDENCE: line alone, the reasoning by the text
\* of the last REASONING: line when that text is not empty, the verdict by
\* the last VERDICT: line that names pass, fail or inconclusive.
C6_LastLineWins ==
    parser.state = "returned" =>
        LET r == parser.response
            V == {i \in LinesWith(r, VERDICT_PREFIX) : lower(TextAfter(r, i)) \in Verdicts}
            R == LinesWith(r, REASONING_PREFIX)
            C == LinesWith(r, CONFIDENCE_PREFIX)
        IN /\ V # {} => parser.result.verdict = lower(TextAfter(r, Last(V)))
           /\ V = {} => parser.result.verdict = s_inconclusive
           /\ (R # {} /\ TextAfter(r, Last(R)) # <<>>) =>
                parser.result.reasoning = TextAfter(r, Last(R))
           /\ C # {} =>
                parser.result.confidence = parse_verdict(InputLines(r)[Last(C)]).confidence

\* two CONFIDENCE: lines that give different values, the second returned
C6_Witness ==
    /\ parser.state = "returned"
    /\ LET r == parser.response
           C == LinesWith(r, CONFIDENCE_PREFIX)
       IN /\ Cardinality(C) = 2
          /\ parse_verdict(InputLines(r)[First(C)]).confidence
                # parse_verdict(InputLines(r)[Last(C)]).confidence
          /\ parser.result.confidence = parse_verdict(InputLines(r)[Last(C)]).confidence

\* C7 as stated: the reasoning is the text of a REASONING: line whenever
\* there is one, and the whole trimmed response exactly when there is none;
\* the empty input gives (inconclusive, "", 50).
C7_FallbackOnlyWithoutLine ==
    parser.state = "returned" =>
        LET r == parser.response
            R == LinesWith(r, REASONING_PREFIX)
        IN /\ R # {} => \E i \in R : parser.result.reasoning = TextAfter(r, i)
           /\ (parser.result.reasoning = strip(r)) <=> (R = {})
           /\ r = <<>> =>
                /\ parser.result.verdict = s_inconclusive
                /\ parser.result.reasoning = <<>>
                /\ parser.result.confidence = DefaultConfidence

\* C7, amended: the reasoning is the text of the last REASONING: line
\* whenever that text is not empty, and the whole trimmed response exactly
\* when there is no such line or the text of the last one is empty; the
\* empty input gives (inconclusive, "", 50).
C7_FallbackWhenReasoningEmpty ==
    parser.state = "returned" =>
        LET r == parser.response
            R == LinesWith(r, REASONING_PREFIX)
            empty == R = {} \/ TextAfter(r, Last(R)) = <<>>
        IN /\ ~empty => parser.result.reasoning = TextAfter(r, Last(R))
           /\ (parser.result.reasoning = strip(r)) <=> empty
           /\ r = <<>> =>
                /\ parser.result.verdict = s_inconclusive
                /\ parser.result.reasoning = <<>>
                /\ parser.result.confidence = DefaultConfidence

\* a response with a REASONING: line without text and other lines: the
\* whole response is returned as the reasoning
C7_Witness ==
    /\ parser.state = "returned"
    /\ LET r == parser.response
           R == LinesWith(r, REASONING_PREFIX)
       IN /\ R # {}
          /\ TextAfter(r, Last(R)) = <<>>
          /\ Len(InputLines(r)) = 2
          /\ parser.result.reasoning = strip(r)

\* the confidence C8 states for the text after CONFIDENCE:, read in the
\* code's favour: every % dropped, the number truncated to an integer, an
\* infinite number clamped like any other, a NaN counted as no number
stated_confidence(text) ==
    LET num == strip(before_first(remove_char(strip(text), "%"), "/"))
        f == to_float(num)
    IN  IF f.kind = "finite"
        THEN (IF f.neg THEN 0 ELSE Min(100, f.whole))
        ELSE IF f.kind = "inf"
        THEN (IF f.neg THEN 0 ELSE 100)
        ELSE DefaultConfidence

\* C8: with one CONFIDENCE: line the returned confidence is the number after
\* the prefix (% and the part from / on removed) clamped to 0..100, or 50
\* when that text is no number; without such a line it is 50.
C8_ConfidenceRule ==
    parser.state \in {"returned", "raised"} =>
        LET r == parser.response
            C == LinesWith(r, CONFIDENCE_PREFIX)
        IN /\ C = {} =>
                parser.state = "returned" /\ parser.result.confidence = DefaultConfidence
           /\ Cardinality(C) = 1 =>
                /\ parser.state = "returned"
                /\ parser.result.confidence =
                      stated_confidence(after_first(InputLines(r)[First(C)], ":"))

\* rows is rows_after without the rows added at its end
IsPrefix(rows, rows_after) ==
    Len(rows) <= Len(rows_after) /\ SubSeq(rows_after, 1, Len(rows)) = rows

TripleOfRow(e) == <<e.submission_id, e.question_template_id, e.judge_id>>

RowsOfTriple(rows, t) == SelectSeq(rows, LAMBDA e : TripleOfRow(e) = t)

\* C11: evaluations are append-only for the run. No step of
\* run_evaluations changes or removes a stored evaluation row: the table
\* after a step is the table before it, with rows added at its end. A run
\* that returns with failed = 0 has added exactly one row per planned
\* triple, in loop order, also when the store held rows of these triples
\* before; so when each of the runs so far has added a row for every
\* eligible triple of the queue, every triple has as many rows as there
\* were runs.
C11_AppendOnly ==
    /\ [][IsPrefix(evaluations, evaluations')]_vars
    /\ [](Returned /\ result.failed = 0 =>
            /\ Len(evaluations) = run.base + result.planned
            /\ [k \in 1..result.planned |-> TripleOfRow(evaluations[run.base + k])]
                  = EligibleTriples(run.queue_id))
    /\ [](LET eligible == EligibleTriples(QueueId(1))
          IN (run.pc = "idle" /\ Len(evaluations) = runs * Len(eligible)) =>
                \A k \in 1..Len(eligible) :
                    Len(RowsOfTriple(evaluations, eligible[k])) = runs)

\* two runs on the same queue have both returned with failed = 0, and each
\* of the two triples has two rows
C11_Witness ==
    /\ runs = 2
    /\ Returned /\ result.failed = 0 /\ result.planned = 2
    /\ run.base = 2
    /\ Len(evaluations) = 4
    /\ \A k \in 1..2 :
          Len(RowsOfTriple(evaluations, EligibleTriples(QueueId(1))[k])) = 2

\* the judge was stored, active and assigned to the question of the fetch
\* f in the queue of the run, in the tables as the fetch found them
ActiveAssignedAt(f, judge_id) ==
    /\ \E j \in 1..Len(f.judges) : f.judges[j].id = judge_id /\ f.judges[j].active
    /\ \E a \in 1..Len(f.judge_assignments) :
          /\ f.judge_assignments[a].judge_id = judge_id
          /\ f.judge_assignments[a].queue_id = run.queue_id
          /\ f.judge_assignments[a].question_template_id = f.question_template_id

\* the run has fetched the judges of the question once, and found the
\* judge active and assigned
EligibleAtFetch(submission_id, q_template_id, judge_id) ==
    LET fs == SelectSeq(run.fetches, LAMBDA f :
                  /\ f.submission_id = submission_id
                  /\ f.question_template_id = q_template_id)
    IN Len(fs) = 1 /\ ActiveAssignedAt(fs[1], judge_id)

\* C12: active-judge filter. With update_judge, delete_judge and
\* assign_judges calls between the awaits of a run, every judge the run
\* invokes for a question, and every evaluation row it inserts or commits,
\* names a judge that was stored, active and assigned to the question in
\* the queue when the run fetched the judges of that question; the rows
\* the run has added to the table are the rows it committed.
C12_ActiveJudgeFilter ==
    /\ \A k \in 1..Len(run.trace) :
          EligibleAtFetch(run.trace[k].submission_id,
                          run.trace[k].question_template_id, run.trace[k].judge_id)
    /\ run.pc \in {"invoke", "generate", "insert", "commit"} =>
          EligibleAtFetch(sub_id(run), q_row(run).question_template_id,
                          judge_row(run).id)
    /\ \A k \in 1..Len(pending) :
          EligibleAtFetch(pending[k].submission_id, pending[k].question_template_id,
                          pending[k].judge_id)
    /\ \A k \in 1..Len(run.written) :
          EligibleAtFetch(run.written[k].submission_id,
                          run.written[k].question_template_id,
                          run.written[k].judge_id)
    /\ runs > 0 =>
          /\ IsPrefix(run.written, SubSeq(evaluations, run.base + 1, Len(evaluations)))
          /\ Len(evaluations) = run.base + Len(run.written)

\* the run found judge 1 active and assigned, the judge was deactivated and
\* lost its assignment while the run was waiting for its reply, and the
\* run has written the row of the judge and returned
C12_Witness ==
    /\ Returned
    /\ Len(run.fetches) = 1
    /\ ActiveAssignedAt(run.fetches[1], 1)
    /\ Len(run.written) = 1
    /\ run.written[1].judge_id = 1
    /\ evaluations = run.written
    /\ \E j \in 1..Len(judges) : judges[j].id = 1 /\ ~judges[j].active
    /\ judge_assignments = <<>>
    /\ api.op = "update_judge" /\ api.pc = "idle"
    /\ result.planned = 1 /\ result.completed = 1

\* C13: deactivation cascade as a store invariant. Once a call of
\* create_judge, update_judge, delete_judge or assign_judges has ended, no
\* row of judge_assignments names a judge whose active flag is false.
C13_NoAssignmentOfInactiveJudge ==
    api.pc = "idle" =>
        \A a \in 1..Len(judge_assignments), j \in 1..Len(judges) :
            judges[j].id = judge_assignments[a].judge_id => judges[j].active

\* C14: answer uniqueness. Whatever upload_submissions calls have gone
\* through, table answers holds at most one row per submission and
\* question template.
C14_OneAnswerPerQuestion ==
    \A i, k \in 1..Len(answers) :
        (/\ answers[i].submission_id = answers[k].submission_id
         /\ answers[i].question_template_id = answers[k].question_template_id)
        => i = k

\* the indices of the evaluation rows that pass the filter
Matching(f) ==
    {k \in 1..Len(evaluations) :
        /\ f.judge_ids = <<>> \/ evaluations[k].judge_id \in {f.judge_ids[i] : i \in 1..Len(f.judge_ids)}
        /\ f.question_ids = <<>>
              \/ evaluations[k].question_template_id
                    \in {f.question_ids[i] : i \in 1..Len(f.question_ids)}
        /\ f.verdict = <<>> \/ evaluations[k].verdict = f.verdict}

\* the sum of the confidence scores of the rows at the indices ks
RECURSIVE SumConfidence(_)
SumConfidence(ks) ==
    IF ks = {} THEN 0
    ELSE LET k == CHOOSE x \in ks : TRUE
         IN evaluations[k].confidence_score + SumConfidence(ks \ {k})

\* value is num / den rounded to an integer, a tie going either way
RoundedTo(value, num, den) ==
    LET d == IF value * den >= num THEN value * den - num ELSE num - value * den
    IN 2 * d <= den

\* the call has returned the statistics of the rows that pass its filter
StatsAsClaimed(call) ==
    LET ks == Matching(call.args.filter)
        n == Cardinality(ks)
        passes == Cardinality({k \in ks : evaluations[k].verdict = s_pass})
    IN /\ call.status = "ok"
       /\ call.stats.total = n
       /\ call.stats.total = call.stats.pass_count + call.stats.fail_count
                                + call.stats.inconclusive_count
       /\ call.stats.pass_count = passes
       /\ IF n = 0
          THEN call.stats.pass_rate = 0 /\ call.stats.avg_confidence = 500
          ELSE /\ RoundedTo(call.stats.pass_rate, passes * 10000, n)
               /\ RoundedTo(call.stats.avg_confidence, SumConfidence(ks) * 10, n)

\* C15: aggregate stats. Every get_evaluation_stats call, whatever the
\* tables hold and whatever its filter, returns total = pass_count +
\* fail_count + inconclusive_count = the number of evaluation rows that
\* pass the filter, pass_rate = pass_count / total * 100 rounded to 2
\* decimals (in hundredths here) and avg_confidence = the mean confidence
\* of these rows rounded to 1 decimal (in tenths); with no such row it
\* returns total 0, pass_rate 0.0 and avg_confidence 50.0.
C15_AggregateStats ==
    [][(api'.op = "get_evaluation_stats" /\ api'.n = api.n + 1) => StatsAsClaimed(api')]_vars

\* the indices of the evaluation rows of the judge on submissions of the
\* queue
RowsOfQueueAndJudge(queue_id, judge_id) ==
    {k \in 1..Len(evaluations) :
        /\ evaluations[k].judge_id = judge_id
        /\ \E i \in 1..Len(submissions) :
              /\ submissions[i].id = evaluations[k].submission_id
              /\ submissions[i].queue_id = queue_id}

RECURSIVE SumTotals(_)
SumTotals(entries) ==
    IF entries = {} THEN 0
    ELSE LET e == CHOOSE x \in entries : TRUE IN e.total + SumTotals(entries \ {e})

\* the entries count the rows of their queue and judge, and between them
\* every evaluation row
QueueStatsAsClaimed(call) ==
    /\ call.status = "ok"
    /\ \A e \in call.queue_stats :
          LET ks == RowsOfQueueAndJudge(e.queue_id, e.judge_id)
          IN /\ e.total = Cardinality(ks)
             /\ e.pass = Cardinality({k \in ks : evaluations[k].verdict = s_pass})
             /\ e.fail = Cardinality({k \in ks : evaluations[k].verdict = s_fail})
             /\ e.inconclusive =
                   Cardinality({k \in ks : evaluations[k].verdict = s_inconclusive})
    /\ \A e, g \in call.queue_stats :
          (e.queue_id = g.queue_id /\ e.judge_id = g.judge_id) => e = g
    /\ SumTotals(call.queue_stats) = Len(evaluations)

\* C16: statsByQueue is the unfiltered aggregation, grouped. After any runs,
\* judge deletions and queue deletions, every entry of get_queue_stats
\* counts exactly the evaluation rows of its judge on submissions of its
\* queue, there is one entry per queue and judge, and the totals of the
\* entries add up to the number of evaluation rows, the total of
\* get_evaluation_stats without a filter.
C16_QueueStatsCoverAllRows ==
    [][(api'.op = "get_queue_stats" /\ api'.n = api.n + 1) => QueueStatsAsClaimed(api')]_vars

\* C17: no retry. At every point of a run the number of posts to
\* /api/generate equals planned, one post per triple counted; the triples
\* the run has finished, failed ones included, are pairwise different, so
\* no triple is invoked a second time; and the planned the run returns is
\* the number of posts it has made.
C17_OneRequestPerTriple ==
    /\ run.requests = run.planned
    /\ run.requests = Len(run.trace) + InFlight
    /\ \A i, k \in 1..Len(run.trace) :
          TraceTriples(run.trace)[i] = TraceTriples(run.trace)[k] => i = k
    /\ Returned => result.planned = run.requests

\* a run of three triples has returned after three posts, the first of
\* which failed
C17_Witness ==
    /\ Returned
    /\ result.planned = 3 /\ run.requests = 3
    /\ run.trace[1].outcome = "failed"
    /\ result.completed = 2

\* the assignment rows of the pair, and those of every other pair
RowsOfPair(rows, queue_id, q_template_id) ==
    SelectSeq(rows, LAMBDA a :
        a.queue_id = queue_id /\ a.question_template_id = q_template_id)

RowsOfOtherPairs(rows, queue_id, q_template_id) ==
    SelectSeq(rows, LAMBDA a :
        ~(a.queue_id = queue_id /\ a.question_template_id = q_template_id))

\* C18: re-assignment replaces. A step in which an assign_judges call goes
\* through leaves, for the queue and template of the request, exactly one
\* assignment row per judge id of the request and no other row, whatever
\* was assigned to the pair before (none for an empty list), and leaves
\* the rows of every other queue and template as they were.
C18_ReassignReplaces ==
    [][(api'.op = "assign_judges" /\ api'.status = "ok" /\ api'.n = api.n + 1) =>
          LET queue_id == api'.args.queue_id
              q_template_id == api'.args.question_template_id
              judge_ids == api'.args.judge_ids
              mine == RowsOfPair(judge_assignments', queue_id, q_template_id)
          IN /\ {mine[k].judge_id : k \in 1..Len(mine)}
                   = {judge_ids[k] : k \in 1..Len(judge_ids)}
             /\ Len(mine) = Cardinality({judge_ids[k] : k \in 1..Len(judge_ids)})
             /\ RowsOfOtherPairs(judge_assignments', queue_id, q_template_id)
                   = RowsOfOtherPairs(judge_assignments, queue_id, q_template_id)]_vars

\* judges 1 and 2 were assigned to both templates of the queue; an
\* assign_judges call for the first template with judge 2 alone has gone
\* through, and the second template has its two judges still
C18_Witness ==
    /\ api.op = "assign_judges" /\ api.status = "ok" /\ api.n = 1
    /\ api.args.queue_id = QueueId(1)
    /\ api.args.question_template_id = TemplateId(1)
    /\ api.args.judge_ids = <<2>>
    /\ LET mine == RowsOfPair(judge_assignments, QueueId(1), TemplateId(1))
       IN Len(mine) = 1 /\ mine[1].judge_id = 2
    /\ Len(RowsOfPair(judge_assignments, QueueId(1), TemplateId(2))) = 2

\* the fixed blocks of a prompt in their order, and the interpolated
\* values in theirs
Blocks(prompt) ==
    LET ls == SelectSeq(prompt, LAMBDA seg : seg.lit # "")
    IN [i \in 1..Len(ls) |-> ls[i].lit]

Values(prompt) ==
    LET vs == SelectSeq(prompt, LAMBDA seg : seg.lit = "")
    IN [i \in 1..Len(vs) |-> vs[i].val]

\* an optional text that is there and not empty
Present(v) == ~v.null /\ Len(v.text) > 0

\* C19: prompt section order. The prompt sent for a triple consists of the
\* context section (its header and the content of the question) exactly
\* when that content is a non-empty text, then the question section with
\* the question text, then the answer section with the choice, with the
\* reasoning line exactly when the answer has a non-empty reasoning, then
\* the instructions; every header is followed by its value.
C19_PromptSectionOrder ==
    run.pc = "generate" =>
        LET content == q_row(run).content
            reasoning == run.answer_row.reasoning
        IN /\ Blocks(run.prompt) =
                 (IF Present(content) THEN <<"=== CONTEXT ===">> ELSE <<>>)
                 \o <<"=== QUESTION BEING EVALUATED ===",
                      "=== HUMAN ANALYST'S ANSWER ===", "Choice: ">>
                 \o (IF Present(reasoning) THEN <<"\nReasoning: ">> ELSE <<>>)
                 \o <<"=== YOUR EVALUATION TASK ===">>
           /\ Values(run.prompt) =
                 (IF Present(content) THEN <<content.text>> ELSE <<>>)
                 \o <<q_row(run).question_text, run.answer_row.choice>>
                 \o (IF Present(reasoning) THEN <<reasoning.text>> ELSE <<>>)
           /\ \A i \in 1..Len(run.prompt) :
                 run.prompt[i].lit \in {"=== CONTEXT ===", "=== QUESTION BEING EVALUATED ===",
                                        "Choice: ", "\nReasoning: "}
                 => (i < Len(run.prompt) /\ run.prompt[i + 1].lit = "")
           /\ run.prompt[Len(run.prompt)].lit = "=== YOUR EVALUATION TASK ==="

\* a prompt with the context section and the reasoning line
C19_Witness ==
    /\ run.pc = "generate"
    /\ Present(q_row(run).content) /\ Present(run.answer_row.reasoning)
    /\ Len(run.prompt) = 10
    /\ run.prompt[1].lit = "=== CONTEXT ==="

\* C20: counter conservation. Whenever the run is not inside the try
\* block of a triple, planned = completed + failed, and inside it planned
\* is one more; every triple the run has finished is counted in exactly
\* one of completed and failed, whatever the invocation, the parse, the
\* INSERT and the commit did; and the summary the run returns has planned
\* = completed + failed.
C20_CounterConservation ==
    /\ run.planned = run.completed + run.failed + InFlight
    /\ run.completed = Len(CompletedEntries(run.trace))
    /\ run.failed = Len(FailedEntries(run.trace))
    /\ Len(run.trace) = run.completed + run.failed
    /\ Returned => result.planned = result.completed + result.failed

\* a run of three triples has returned: one completed, one failed at the
\* invocation and one at the INSERT or the commit
C20_Witness ==
    /\ Returned
    /\ result.planned = 3 /\ result.completed = 1 /\ result.failed = 2
    /\ \E i, k \in 1..Len(run.errors) :
          /\ run.errors[i].cause = "HTTPStatusError"
          /\ run.errors[k].cause = "OperationalError"

\* C21: no orphan evaluations. With delete_queue calls between the awaits
\* of a run, every row of the evaluations table names a submission that is
\* a row of the submissions table.
C21_NoOrphanEvaluations ==
    \A k \in 1..Len(evaluations) :
        \E s \in 1..Len(submissions) : submissions[s].id = evaluations[k].submission_id

====
